---- MODULE Spec2Model ----
(***************************************************************************)
(* Rate limiting (app/utils/rate-limit: Redis-capable and standalone       *)
(* in-memory variants) and signed access tokens (app/utils/token,          *)
(* app/api/validate-token) of ecospace-backend.                            *)
(*                                                                         *)
(* Clock `now` is Date.now() in milliseconds.  Policies are drawn from a   *)
(* small policy space instead of the production values 20/60, 10/60 and    *)
(* 30/60 so that windows open, fill and expire inside the explored runs.   *)
(***************************************************************************)
EXTENDS Integers, Sequences, FiniteSets, TLC

\* ------------------------------------------------------------------ bounds
MaxLimit == 2
MaxWindowSec == 2
MaxSec == 3

\* --------------------------------------------------------------- constants
MsPerSec == 1000

Clients == {"a", "b"}
PolicyNames == {"analyze", "validateToken"}
PolicySpace == [limit : 1..MaxLimit, windowSec : 1..MaxWindowSec]
Handlers == {"h1", "h2"}

HalfSec == MsPerSec \div 2

Max(a, b) == IF a >= b THEN a ELSE b

\* Math.ceil(a / b) for b > 0 and any integer a
Ceil(a, b) == -((-a) \div b)

VARIABLES
    now,            \* Date.now()
    RATE_LIMITS,    \* named policies, fixed at process start
    redis,          \* TRUE iff the Redis client was constructed
    inMemoryStore,  \* Redis-capable module: local fallback map
    rateLimitStore, \* standalone module: local map
    rateLimiters,   \* Redis-capable module: cache of Ratelimit instances
    redisStore,     \* counters held by the Upstash server
    pc,             \* per handler instance: position inside async checkRateLimit
    call,           \* per handler instance: arguments and the pending reply
    last,           \* the most recent result handed back to a caller
    ref,            \* per (clientId, limit, windowSec): window as the caller observes it
    tokenNow,       \* Date.now() of the token code, counted in days
    TOKEN_SECRET,   \* process.env.AFKMATE_TOKEN_SECRET (<<>> when unset)
    IS_PRODUCTION,
    token,          \* the token value at hand
    issued,         \* how the token at hand was made
    parsed,         \* outcome of the last parseToken / generateToken call
    request,        \* the HTTP request last handled
    response        \* the NextResponse returned for it

limiterVars == <<now, RATE_LIMITS, redis, inMemoryStore, rateLimitStore, rateLimiters,
                 redisStore, pc, call, last, ref>>
tokenVars == <<tokenNow, TOKEN_SECRET, IS_PRODUCTION, token, issued, parsed>>
httpVars == <<request, response>>
vars == <<limiterVars, tokenVars, httpVars>>

NoEntry == [present |-> FALSE, count |-> 0, resetTime |-> 0]
Entry(c, r) == [present |-> TRUE, count |-> c, resetTime |-> r]

InMemoryKeyShared(identifier, config) == <<"a", config.limit, config.windowSec>>

\* key = `rate:${identifier}:${config.limit}:${config.windowSec}`
InMemoryKey(identifier, config) == <<identifier, config.limit, config.windowSec>>
InMemoryKeys == Clients \X (1..MaxLimit) \X (1..MaxWindowSec)

BumpEntryAtBoundary(entry, config, t) ==
    LET cur == IF ~entry.present \/ t >= entry.resetTime
               THEN Entry(0, t + config.windowSec * MsPerSec)
               ELSE entry
    IN  Entry(cur.count + 1, cur.resetTime)

BumpEntryLostUpdate(entry, config, t) ==
    LET cur == IF ~entry.present \/ t > entry.resetTime
               THEN Entry(0, t + config.windowSec * MsPerSec)
               ELSE entry
    IN  Entry(IF cur.count = 1 THEN 1 ELSE cur.count + 1, cur.resetTime)

BumpEntrySliding(entry, config, t) ==
    LET cur == IF ~entry.present \/ t > entry.resetTime
               THEN Entry(0, t + config.windowSec * MsPerSec)
               ELSE entry
    IN  Entry(cur.count + 1,
              IF cur.count >= config.limit THEN t + config.windowSec * MsPerSec
              ELSE cur.resetTime)

\* entry after "create new entry if doesn't exist or window expired; count++"
BumpEntry(entry, config, t) ==
    LET cur == IF ~entry.present \/ t > entry.resetTime
               THEN Entry(0, t + config.windowSec * MsPerSec)
               ELSE entry
    IN  Entry(cur.count + 1, cur.resetTime)

ResultOfStrict(entry, config, t) ==
    [success   |-> entry.count < config.limit,
     limit     |-> config.limit,
     remaining |-> Max(0, config.limit - entry.count),
     resetIn   |-> Ceil(entry.resetTime - t, MsPerSec)]

ResultOf(entry, config, t) ==
    [success   |-> entry.count <= config.limit,
     limit     |-> config.limit,
     remaining |-> Max(0, config.limit - entry.count),
     resetIn   |-> Ceil(entry.resetTime - t, MsPerSec)]

\* checkRateLimitInMemory: the store after the call, and the value returned
InMemoryStoreAfter(store, identifier, config, t) ==
    [store EXCEPT ![InMemoryKey(identifier, config)] =
        BumpEntry(store[InMemoryKey(identifier, config)], config, t)]

checkRateLimitInMemory(store, identifier, config, t) ==
    ResultOf(InMemoryStoreAfter(store, identifier, config, t)[InMemoryKey(identifier, config)],
             config, t)

\* ---------------------------------------------------------------- observer
\* The window of a (clientId, limit, windowSec) triple as its caller sees it:
\* opened by the first call, or by the first call made after the previous
\* window's windowSec seconds have elapsed.
NoWindow == [open |-> FALSE, start |-> 0, calls |-> 0, admits |-> 0]

RefAfterCall(w, config, t, admitted) ==
    LET fresh == ~w.open \/ t > w.start + config.windowSec * MsPerSec
        base  == IF fresh THEN [open |-> TRUE, start |-> t, calls |-> 0, admits |-> 0] ELSE w
    IN  [base EXCEPT !.calls = @ + 1,
                     !.admits = @ + (IF admitted THEN 1 ELSE 0)]

Observe(identifier, config, t, res, backend, stale, installed) ==
    /\ ref' = [ref EXCEPT ![InMemoryKey(identifier, config)] =
                  RefAfterCall(@, config, t, res.success)]
    /\ last' = [valid |-> TRUE, id |-> identifier, config |-> config, at |-> t,
                res |-> res, backend |-> backend, stale |-> stale,
                installed |-> installed]

NoLast == [valid |-> FALSE, id |-> "a", config |-> [limit |-> 1, windowSec |-> 1], at |-> 0,
           res |-> [success |-> FALSE, limit |-> 0, remaining |-> 0, resetIn |-> 0],
           backend |-> "none", stale |-> NoEntry,
           installed |-> NoEntry]

\* ------------------------------------------------------------ Upstash side
\* new Ratelimit({redis, limiter: slidingWindow(limit, windowSec), prefix:
\* "ratelimit"}).limit(identifier): every limiter is built with the same
\* prefix and is given the identifier alone, so the server key of a request is
\* ratelimit:<identifier>:<floor(now / window)>; limit only enters the
\* comparison.  A key expires 2 * window + 1 s after its first increment,
\* later than the last instant at which it is read as the current or the
\* previous window, so the stored value is the request count of its window.
NoRedisEntry == 0
RedisKeys == Clients \X (0..MaxSec)
RedisKey(identifier, config, t) == <<identifier, t \div (config.windowSec * MsPerSec)>>

RedisGet(store, k) == IF k \in DOMAIN store THEN store[k] ELSE 0

\* requests of the current window, and those of the previous window still
\* weighing on it
RedisUsed(store, identifier, config, t) ==
    LET w == config.windowSec * MsPerSec
    IN  RedisGet(store, RedisKey(identifier, config, t))
            + (RedisGet(store, <<identifier, (t \div w) - 1>>) * (w - (t % w))) \div w

RedisAdmits(store, identifier, config, t) ==
    RedisUsed(store, identifier, config, t) < config.limit

RedisStoreAfter(store, identifier, config, t) ==
    IF ~RedisAdmits(store, identifier, config, t) THEN store
    ELSE [store EXCEPT ![RedisKey(identifier, config, t)] = @ + 1]

\* {success, limit, remaining, reset} of limiter.limit(identifier)
RedisReply(store, identifier, config, t) ==
    LET w == config.windowSec * MsPerSec
        ok == RedisAdmits(store, identifier, config, t)
    IN  [success   |-> ok,
         limit     |-> config.limit,
         remaining |-> IF ok THEN config.limit - (RedisUsed(store, identifier, config, t) + 1)
                       ELSE 0,
         reset     |-> ((t \div w) + 1) * w]

NoReply == [success |-> FALSE, limit |-> 0, remaining |-> 0, reset |-> 0]
NoCall == [id |-> "a", config |-> [limit |-> 1, windowSec |-> 1], reply |-> NoReply]


\* ------------------------------------------------------------------ tokens
\* Strings are sequences of one-character strings.  The token clock counts
\* days: 365 days of milliseconds do not fit TLC's integers, and every
\* comparison of the token code is between whole timestamps.
VALIDITY == 365

Digits36 == <<"0", "1", "2", "3", "4", "5", "6", "7", "8", "9", "a", "b", "c", "d", "e", "f", "g", "h", "i", "j", "k", "l", "m", "n", "o", "p", "q", "r", "s", "t", "u", "v", "w", "x", "y", "z">>
UpperCase == <<"A", "B", "C", "D", "E", "F", "G", "H", "I", "J", "K", "L", "M", "N", "O", "P", "Q", "R", "S", "T", "U", "V", "W", "X", "Y", "Z">>
LowerCase == <<"a", "b", "c", "d", "e", "f", "g", "h", "i", "j", "k", "l", "m", "n", "o", "p", "q", "r", "s", "t", "u", "v", "w", "x", "y", "z">>
Chars == Digits36 \o UpperCase \o <<"-", "!">>

IndexIn(ch, sq) == IF \E i \in 1..Len(sq) : sq[i] = ch
                   THEN CHOOSE i \in 1..Len(sq) : sq[i] = ch ELSE 0

\* String.prototype.toLowerCase
ToLower(str) ==
    [i \in 1..Len(str) |-> IF IndexIn(str[i], UpperCase) > 0
                           THEN LowerCase[IndexIn(str[i], UpperCase)] ELSE str[i]]

\* Number.prototype.toString(36) of a non-negative integer
RECURSIVE ToString36(_)
ToString36(n) ==
    IF n < 36 THEN <<Digits36[n + 1]>>
    ELSE ToString36(n \div 36) \o <<Digits36[(n % 36) + 1]>>

\* parseInt(str, 36): the longest prefix of base-36 digits (either case);
\* NaN when there is none
Digit36(ch) == IndexIn(ToLower(<<ch>>)[1], Digits36) - 1
RECURSIVE ParsePrefix36(_, _, _)
ParsePrefix36(str, i, acc) ==
    IF i > Len(str) \/ Digit36(str[i]) < 0 THEN acc
    ELSE ParsePrefix36(str, i + 1, acc * 36 + Digit36(str[i]))
NaN == -1
ParseInt36(str) ==
    IF Len(str) = 0 \/ Digit36(str[1]) < 0 THEN NaN ELSE ParsePrefix36(str, 1, 0)

\* String.prototype.split("-"): the fields between consecutive dashes
DashAt(str) == {i \in 1..Len(str) : str[i] = "-"}
NthDash(str, k) ==
    CHOOSE i \in DashAt(str) : Cardinality({j \in DashAt(str) : j <= i}) = k
Split(str) ==
    LET n == Cardinality(DashAt(str)) + 1
    IN  [k \in 1..n |->
            SubSeq(str,
                   IF k = 1 THEN 1 ELSE NthDash(str, k - 1) + 1,
                   IF k = n THEN Len(str) ELSE NthDash(str, k) - 1)]

\* `${a}-${b}-...`
RECURSIVE JoinDash(_)
JoinDash(parts) ==
    IF Len(parts) = 1 THEN parts[1]
    ELSE parts[1] \o <<"-">> \o JoinDash(Tail(parts))

\* crypto.createHmac("sha256", key).update(data).digest("hex").substring(0, 12):
\* a fixed function of (key, data) yielding 12 lowercase hex characters
\* (the digest folds the characters as a polynomial in 31 modulo a prime whose
\* square fits 32 bits, evaluated by halving the string)
HashMod == 46337
CharCode == [ch \in {Chars[i] : i \in 1..Len(Chars)} |-> IndexIn(ch, Chars)]
RECURSIVE Pow31(_)
Pow31(e) ==
    IF e = 0 THEN 1
    ELSE LET h == Pow31(e \div 2)
         IN  (((h * h) % HashMod) * (IF e % 2 = 1 THEN 31 ELSE 1)) % HashMod
RECURSIVE Poly(_, _, _)
Poly(str, lo, hi) ==
    IF lo > hi THEN 0
    ELSE IF lo = hi THEN CharCode[str[lo]]
    ELSE LET mid == (lo + hi) \div 2
         IN  (Poly(str, lo, mid) * Pow31(hi - mid) + Poly(str, mid + 1, hi)) % HashMod
Fold(str, n, seed) == (seed * Pow31(n) + Poly(str, 1, n)) % HashMod
RECURSIVE Hex(_, _)
Hex(n, width) ==
    IF width = 0 THEN <<>> ELSE Hex(n \div 16, width - 1) \o <<Digits36[(n % 16) + 1]>>
Hmac12(key, data) ==
    LET h1 == Fold(data, Len(data), Fold(key, Len(key), 7))
        h2 == Fold(key, Len(key), Fold(data, Len(data), 11))
        h3 == Fold(data, Len(data), Fold(key, Len(key), h1))
    IN  Hex(h1, 4) \o Hex(h2, 4) \o Hex(h3, 4)

MAGIC == <<"A", "F", "K", "M", "A", "T", "E">>
premium == <<"p", "r", "e", "m", "i", "u", "m">>
pro == <<"p", "r", "o">>
enterprise == <<"e", "n", "t", "e", "r", "p", "r", "i", "s", "e">>
validTiers == {premium, pro, enterprise}
DevSecret == <<"d", "e", "v", "-", "o", "n", "l", "y", "-", "s", "e", "c", "r", "e", "t", "-", "d", "o", "-", "n", "o", "t", "-", "u", "s", "e", "-", "i", "n", "-", "p", "r", "o", "d">>

\* TOKEN_SECRET || (IS_PRODUCTION ? "" : "dev-only-secret-do-not-use-in-prod")
EffectiveSecretOf(secret, production) ==
    IF secret # <<>> THEN secret
    ELSE IF production THEN <<>> ELSE DevSecret

EFFECTIVE_SECRET == EffectiveSecretOf(TOKEN_SECRET, IS_PRODUCTION)

ExpiredAtBoundary(timestamp, t) == t >= timestamp + VALIDITY

ExpiredNever(timestamp, t) == FALSE

ExpiredForOneDay(timestamp, t) == t = timestamp + VALIDITY + 1

\* Date.now() > timestamp + 365 days
Expired(timestamp, t) == t > timestamp + VALIDITY

\* .substring(0, 12)
SignatureLen == 12

\* what a comparison of two buffers did: whether crypto.timingSafeEqual was
\* called, its verdict, how many byte positions it read, whether it threw
NoCompare == [called |-> FALSE, equal |-> FALSE, inspected |-> 0, threw |-> FALSE]

timingSafeEqualEarlyExit(a, b) ==
    [called |-> TRUE, equal |-> a = b,
     inspected |-> IF Len(a) # Len(b) THEN 0
                   ELSE IF a = b THEN Len(b)
                   ELSE CHOOSE i \in 1..Len(b) :
                            a[i] # b[i] /\ \A j \in 1..(i - 1) : a[j] = b[j],
     threw |-> Len(a) # Len(b)]

\* crypto.timingSafeEqual(a, b): a RangeError for buffers of different byte
\* length, otherwise every byte of both is read whatever their contents
timingSafeEqual(a, b) ==
    [called |-> TRUE, equal |-> a = b,
     inspected |-> IF Len(a) # Len(b) THEN 0 ELSE Len(b),
     threw |-> Len(a) # Len(b)]

SignatureCompareUnchecked(provided, expected) == timingSafeEqual(provided, expected)

\* providedBuffer.length !== expectedBuffer.length
\*     || !crypto.timingSafeEqual(providedBuffer, expectedBuffer)
\* (|| does not evaluate its right side when the lengths differ)
SignatureCompare(provided, expected) ==
    IF Len(provided) # Len(expected) THEN NoCompare
    ELSE timingSafeEqual(provided, expected)

SignatureMismatchLengthOnly(provided, expected) == Len(provided) # Len(expected)

SignatureMismatch(provided, expected) ==
    LET c == SignatureCompare(provided, expected)
    IN  ~c.called \/ ~c.equal

NoPayload == [userId |-> <<>>, tier |-> <<>>, issuedAt |-> 0, expiresAt |-> 0]
RejectWithPayload(msg) ==
    [valid |-> FALSE, message |-> msg, hasPayload |-> TRUE, payload |-> NoPayload]

\* { valid: false, message }: no payload property
Reject(msg) == [valid |-> FALSE, message |-> msg, hasPayload |-> FALSE, payload |-> NoPayload]

\* a run of parseToken: the value returned (none when the run threw), whether
\* the HMAC was computed and what the signature comparison did
Run(res, hmac, compare) ==
    [res |-> res, hmac |-> hmac, compare |-> compare, threw |-> compare.threw]

\* parseToken(token) evaluated at time t; tok = [str, s]: str is FALSE for a
\* value that is not a string
parseTokenRun(tok, t) ==
    IF ~tok.str \/ Len(tok.s) = 0 THEN Run(Reject("Token is required"), FALSE, NoCompare)
    ELSE LET parts == Split(tok.s) IN
    IF Len(parts) # 5 \/ parts[1] # MAGIC
    THEN Run(Reject("Invalid token format"), FALSE, NoCompare)
    ELSE LET tier == parts[2]
             timestampStr == parts[3]
             userId == parts[4]
             providedSignature == parts[5]
             timestamp == ParseInt36(timestampStr)
             expectedSignature ==
                 Hmac12(EFFECTIVE_SECRET, JoinDash(<<MAGIC, tier, timestampStr, userId>>))
             compare == SignatureCompare(providedSignature, expectedSignature)
         IN
    IF ToLower(tier) \notin validTiers
    THEN Run(Reject("Invalid subscription tier"), FALSE, NoCompare)
    ELSE IF timestamp = NaN THEN Run(Reject("Invalid token timestamp"), FALSE, NoCompare)
    ELSE IF Expired(timestamp, t) THEN Run(Reject("Token has expired"), FALSE, NoCompare)
    ELSE IF SignatureMismatch(providedSignature, expectedSignature)
         THEN Run(Reject("Invalid token signature"), TRUE, compare)
    ELSE Run([valid |-> TRUE, message |-> "", hasPayload |-> TRUE,
              payload |-> [userId |-> userId, tier |-> ToLower(tier),
                           issuedAt |-> timestamp, expiresAt |-> timestamp + VALIDITY]],
             TRUE, compare)

parseToken(tok, t) == parseTokenRun(tok, t).res

\* generateToken(userId, tier) evaluated at time t under a configured secret
generateToken(secret, userId, tier, t) ==
    LET timestampStr == ToString36(t)
        dataToSign == JoinDash(<<MAGIC, tier, timestampStr, userId>>)
    IN  dataToSign \o <<"-">> \o Hmac12(secret, dataToSign)

\* ------------------------------------------------------------ HTTP layer
\* request.headers.get(name): null when the header is absent
NoHeader == [present |-> FALSE, v |-> <<>>]
Header(v) == [present |-> TRUE, v |-> v]

UnknownClient == <<"u", "n", "k", "n", "o", "w", "n", "-", "c", "l", "i", "e", "n", "t">>

\* String.prototype.trim()
RECURSIVE TrimStart(_)
TrimStart(str) ==
    IF str # <<>> /\ Head(str) = " " THEN TrimStart(Tail(str)) ELSE str
RECURSIVE TrimEnd(_)
TrimEnd(str) ==
    IF str # <<>> /\ str[Len(str)] = " " THEN TrimEnd(SubSeq(str, 1, Len(str) - 1)) ELSE str
Trim(str) == TrimEnd(TrimStart(str))

\* forwarded.split(',')[0]
FirstCommaField(str) ==
    LET commas == {i \in 1..Len(str) : str[i] = ","}
    IN  IF commas = {} THEN str
        ELSE SubSeq(str, 1, (CHOOSE i \in commas : \A j \in commas : i <= j) - 1)

getClientIdentifierRealIpFirst(req) ==
    IF req.realIp.present /\ req.realIp.v # <<>> THEN req.realIp.v
    ELSE IF req.forwarded.present /\ req.forwarded.v # <<>>
         THEN Trim(FirstCommaField(req.forwarded.v))
    ELSE UnknownClient

\* getClientIdentifier(request); `if (forwarded)` is false for null and for ""
getClientIdentifier(req) ==
    IF req.forwarded.present /\ req.forwarded.v # <<>>
    THEN Trim(FirstCommaField(req.forwarded.v))
    ELSE IF req.realIp.present /\ req.realIp.v # <<>> THEN req.realIp.v
    ELSE UnknownClient

TokenMaxLen == 200
TokenMinLen == 20

StartsWith(str, prefix) ==
    Len(str) >= Len(prefix) /\ SubSeq(str, 1, Len(prefix)) = prefix

validateTokenFormatNoMinimum(tok) ==
    IF ~tok.str \/ Len(tok.s) = 0
    THEN [valid |-> FALSE, error |-> "Token must be a non-empty string"]
    ELSE IF Len(tok.s) > TokenMaxLen THEN [valid |-> FALSE, error |-> "Token too long"]
    ELSE IF ~StartsWith(tok.s, MAGIC \o <<"-">>)
         THEN [valid |-> FALSE, error |-> "Invalid token format"]
    ELSE [valid |-> TRUE, error |-> ""]

\* validateTokenFormat(token)
validateTokenFormat(tok) ==
    IF ~tok.str \/ Len(tok.s) = 0
    THEN [valid |-> FALSE, error |-> "Token must be a non-empty string"]
    ELSE IF Len(tok.s) > TokenMaxLen THEN [valid |-> FALSE, error |-> "Token too long"]
    ELSE IF Len(tok.s) < TokenMinLen THEN [valid |-> FALSE, error |-> "Token too short"]
    ELSE IF ~StartsWith(tok.s, MAGIC \o <<"-">>)
         THEN [valid |-> FALSE, error |-> "Invalid token format"]
    ELSE [valid |-> TRUE, error |-> ""]

\* what a handler holds in `rateLimit`: the result itself when checkRateLimit
\* is the synchronous function, a Promise of it (the call is not awaited)
\* when it is the async one
Settled(res) == [promise |-> FALSE, res |-> res]
Pending(res) == [promise |-> TRUE, res |-> res]
\* rateLimit.success: undefined on a Promise
Success(rateLimit) == ~rateLimit.promise /\ rateLimit.res.success

NoRequest == [endpoint |-> "none", forwarded |-> NoHeader, realIp |-> NoHeader,
              first |-> <<>>, body |-> "none", llm |-> "none"]
Response(status, headers, valid, message, parseTokenCalled, llmCalled) ==
    [status |-> status, headers |-> headers, valid |-> valid, message |-> message,
     parseTokenCalled |-> parseTokenCalled, llmCalled |-> llmCalled]
NoResponse == Response(0, {}, FALSE, "", FALSE, FALSE)

AdvisoryHeaders == {"X-RateLimit-Limit", "X-RateLimit-Remaining", "X-RateLimit-Reset"}

\* POST /api/validate-token after the call of checkRateLimit; body is
\* "badJson" (req.json() rejects), "null" (JSON null: destructuring throws
\* into the outer catch) or "object" ({ token })
ValidateTokenResponse(rateLimit, body, tok, t) ==
    IF ~Success(rateLimit)
    THEN Response(429, {"Retry-After"}, FALSE,
                  "Too many validation attempts. Please try again later.", FALSE, FALSE)
    ELSE IF IS_PRODUCTION /\ TOKEN_SECRET = <<>>
    THEN Response(503, {}, FALSE, "Service temporarily unavailable", FALSE, FALSE)
    ELSE IF body = "badJson"
    THEN Response(400, {}, FALSE, "Invalid JSON in request body", FALSE, FALSE)
    ELSE IF body = "null"
    THEN Response(500, {}, FALSE, "Validation failed", FALSE, FALSE)
    ELSE LET formatCheck == validateTokenFormat(tok) IN
    IF ~formatCheck.valid
    THEN Response(400, {}, FALSE, formatCheck.error, FALSE, FALSE)
    ELSE LET result == parseToken(tok, t) IN
    IF ~result.valid
    THEN Response(401, {}, FALSE, result.message, TRUE, FALSE)
    ELSE Response(200, {}, TRUE, "Token validated successfully", TRUE, FALSE)

\* POST /api/analyze after the call of checkRateLimit; body is "badJson",
\* "invalid" (validateAnalysisInput fails, here on a body that is no object) or "valid"; llm is how
\* getLLMFallbackResponse ends: "ok", "invalidResponse" (throws 'Invalid
\* response: ...') or "error" (throws anything else)
AnalyzeResponse(rateLimit, body, llm) ==
    IF ~Success(rateLimit)
    THEN Response(429, {"Retry-After"} \cup AdvisoryHeaders, FALSE,
                  "Rate limit exceeded", FALSE, FALSE)
    ELSE IF body = "badJson"
    THEN Response(400, {}, FALSE, "Invalid JSON in request body", FALSE, FALSE)
    ELSE IF body = "invalid"
    THEN Response(400, {}, FALSE, "Request body must be a JSON object", FALSE, FALSE)
    ELSE IF llm = "invalidResponse"
    THEN Response(502, {}, FALSE, "Failed to parse LLM response", FALSE, TRUE)
    ELSE IF llm = "error"
    THEN Response(500, {}, FALSE, "Server error", FALSE, TRUE)
    ELSE Response(200, AdvisoryHeaders, FALSE, "", FALSE, TRUE)

HttpIdle ==
    /\ request = NoRequest
    /\ response = NoResponse

\* the previous exchange is over when the next token or instant is at hand
Delivered ==
    /\ request' = NoRequest
    /\ response' = NoResponse

\* ------------------------------------------------------------------ actions
NoToken == [str |-> FALSE, s |-> <<"!">>]
NoIssue == [by |-> "none", structOk |-> FALSE, tierOk |-> FALSE, tsOk |-> FALSE,
            ts |-> 0, sigOk |-> FALSE, userId |-> <<>>, tier |-> <<>>]
\* what the previous parse of the same token, at an earlier instant, returned
NoBefore == [seen |-> FALSE, at |-> 0, valid |-> FALSE, message |-> ""]
NoParse == [op |-> "none", at |-> 0, threw |-> FALSE, res |-> Reject(""),
            hmac |-> FALSE, compare |-> NoCompare, before |-> NoBefore]

InitLimiter ==
    /\ now = 0
    /\ inMemoryStore = [k \in InMemoryKeys |-> NoEntry]
    /\ rateLimitStore = [c \in Clients |-> NoEntry]
    /\ rateLimiters = {}
    /\ redisStore = [k \in RedisKeys |-> NoRedisEntry]
    /\ pc = [h \in Handlers |-> "idle"]
    /\ call = [h \in Handlers |-> NoCall]
    /\ last = NoLast
    /\ ref = [k \in InMemoryKeys |-> NoWindow]

\* the limiter at rest; the token code at rest, secret configured
InitCommon ==
    /\ tokenNow = 0
    /\ TOKEN_SECRET = <<"k", "-", "2">>
    /\ IS_PRODUCTION = FALSE
    /\ token = NoToken
    /\ issued = NoIssue
    /\ parsed = NoParse
    /\ HttpIdle
    /\ RATE_LIMITS \in [PolicyNames -> PolicySpace]
    /\ InitLimiter

\* the clock advances between (never inside) synchronous handler bodies
Tick ==
    /\ now + HalfSec <= MaxSec * MsPerSec
    /\ now' = now + HalfSec
    /\ UNCHANGED <<httpVars, tokenVars, RATE_LIMITS, redis, inMemoryStore, rateLimitStore, rateLimiters,
                   redisStore, pc, call, last, ref>>

SweptInMemoryAtBoundary(store, t) ==
    [k \in DOMAIN store |-> IF store[k].present /\ t >= store[k].resetTime
                            THEN NoEntry ELSE store[k]]

\* setInterval sweep of inMemoryStore, installed only when !USE_REDIS
SweptInMemory(store, t) ==
    [k \in DOMAIN store |-> IF store[k].present /\ t > store[k].resetTime
                            THEN NoEntry ELSE store[k]]

SweepInMemory ==
    /\ ~redis
    /\ inMemoryStore' = SweptInMemory(inMemoryStore, now)
    /\ inMemoryStore' # inMemoryStore
    /\ UNCHANGED <<httpVars, tokenVars, now, RATE_LIMITS, redis, rateLimitStore, rateLimiters,
                   redisStore, pc, call, last, ref>>

\* keeps the explored counts finite: a key is called at most Overshoot times
\* beyond the largest limit while its counter is live
Overshoot == 1
Budget(entry, t) ==
    ~entry.present \/ t > entry.resetTime \/ entry.count < MaxLimit + Overshoot

\* async checkRateLimit with no limiter (getRateLimiter returned null): the
\* body runs to completion without suspending
CheckRateLimitLocal(identifier, name) ==
    LET config == RATE_LIMITS[name] IN
    /\ ~redis
    /\ Budget(inMemoryStore[InMemoryKey(identifier, config)], now)
    /\ inMemoryStore' = InMemoryStoreAfter(inMemoryStore, identifier, config, now)
    /\ Observe(identifier, config, now,
               checkRateLimitInMemory(inMemoryStore, identifier, config, now), "local",
               inMemoryStore[InMemoryKey(identifier, config)],
               inMemoryStore'[InMemoryKey(identifier, config)])
    /\ UNCHANGED <<httpVars, tokenVars, now, RATE_LIMITS, redis, rateLimitStore, rateLimiters,
                   redisStore, pc, call>>

\* local runs drive one endpoint, so one policy is under test per run
InitLocal ==
    /\ InitCommon
    /\ redis = FALSE
    /\ RATE_LIMITS["analyze"] = RATE_LIMITS["validateToken"]

NextLocal ==
    \/ Tick
    \/ SweepInMemory
    \/ \E c \in Clients : CheckRateLimitLocal(c, "validateToken")

SpecLocal == InitLocal /\ [][NextLocal]_vars

\* ------------------------------------------ async checkRateLimit with Redis
WindowBudget(k, windowSec, t) ==
    ~ref[k].open \/ t > ref[k].start + windowSec * MsPerSec
        \/ ref[k].calls < MaxLimit + Overshoot

BeginSticky(h, identifier, name) ==
    LET config == RATE_LIMITS[name] IN
    /\ redis
    /\ pc[h] = "idle"
    /\ WindowBudget(InMemoryKey(identifier, config), config.windowSec, now)
    /\ rateLimiters' = rateLimiters \cup {<<config.limit, config.windowSec>>}
    /\ pc' = [pc EXCEPT ![h] = IF last.valid /\ last.backend = "local"
                                THEN "failed" ELSE "awaiting"]
    /\ call' = [call EXCEPT ![h] = [id |-> identifier, config |-> config,
                                    reply |-> NoReply]]
    /\ UNCHANGED <<httpVars, tokenVars, now, RATE_LIMITS, redis, inMemoryStore, rateLimitStore,
                   redisStore, last, ref>>

\* entry of checkRateLimit: getRateLimiter(config) finds or creates the
\* limiter for `${limit}-${windowSec}`, then limiter.limit(identifier) is
\* issued and the handler suspends on the await
Begin(h, identifier, name) ==
    LET config == RATE_LIMITS[name] IN
    /\ redis
    /\ pc[h] = "idle"
    /\ WindowBudget(InMemoryKey(identifier, config), config.windowSec, now)
    /\ rateLimiters' = rateLimiters \cup {<<config.limit, config.windowSec>>}
    /\ pc' = [pc EXCEPT ![h] = "awaiting"]
    /\ call' = [call EXCEPT ![h] = [id |-> identifier, config |-> config,
                                    reply |-> NoReply]]
    /\ UNCHANGED <<httpVars, tokenVars, now, RATE_LIMITS, redis, inMemoryStore, rateLimitStore,
                   redisStore, last, ref>>

\* the server runs the request atomically and the reply travels back
RedisExec(h) ==
    LET c == call[h] IN
    /\ pc[h] = "awaiting"
    /\ redisStore' = RedisStoreAfter(redisStore, c.id, c.config, now)
    /\ call' = [call EXCEPT ![h].reply = RedisReply(redisStore, c.id, c.config, now)]
    /\ pc' = [pc EXCEPT ![h] = "replied"]
    /\ UNCHANGED <<httpVars, tokenVars, now, RATE_LIMITS, redis, inMemoryStore, rateLimitStore,
                   rateLimiters, last, ref>>

\* limiter.limit rejects (network, auth, quota)
RedisThrow(h) ==
    /\ pc[h] = "awaiting"
    /\ pc' = [pc EXCEPT ![h] = "failed"]
    /\ UNCHANGED <<httpVars, tokenVars, now, RATE_LIMITS, redis, inMemoryStore, rateLimitStore,
                   rateLimiters, redisStore, call, last, ref>>

\* continuation of the await inside try: the reply is repackaged
ResumeOk(h) ==
    LET c == call[h] IN
    /\ pc[h] = "replied"
    /\ Observe(c.id, c.config, now,
               [success   |-> c.reply.success,
                limit     |-> c.reply.limit,
                remaining |-> c.reply.remaining,
                resetIn   |-> Ceil(c.reply.reset - now, MsPerSec)],
               "redis", NoEntry, NoEntry)
    /\ pc' = [pc EXCEPT ![h] = "idle"]
    /\ call' = [call EXCEPT ![h] = NoCall]
    /\ UNCHANGED <<httpVars, tokenVars, now, RATE_LIMITS, redis, inMemoryStore, rateLimitStore,
                   rateLimiters, redisStore>>

ResumeCatchRethrow(h) ==
    /\ pc[h] = "failed"
    /\ pc' = [pc EXCEPT ![h] = "threw"]
    /\ UNCHANGED <<httpVars, tokenVars, now, RATE_LIMITS, redis, inMemoryStore, rateLimitStore,
                   rateLimiters, redisStore, call, last, ref>>

\* catch block: log, fall through to checkRateLimitInMemory
ResumeCatch(h) ==
    LET c == call[h] IN
    /\ pc[h] = "failed"
    /\ inMemoryStore' = InMemoryStoreAfter(inMemoryStore, c.id, c.config, now)
    /\ Observe(c.id, c.config, now,
               checkRateLimitInMemory(inMemoryStore, c.id, c.config, now), "local",
               inMemoryStore[InMemoryKey(c.id, c.config)],
               inMemoryStore'[InMemoryKey(c.id, c.config)])
    /\ pc' = [pc EXCEPT ![h] = "idle"]
    /\ call' = [call EXCEPT ![h] = NoCall]
    /\ UNCHANGED <<httpVars, tokenVars, now, RATE_LIMITS, redis, rateLimitStore,
                   rateLimiters, redisStore>>

InitRedis ==
    /\ InitCommon
    /\ redis = TRUE
    /\ RATE_LIMITS["analyze"] = RATE_LIMITS["validateToken"]

\* one handler instance, one policy; the server may answer or fail each call
NextRedis ==
    \/ Tick
    \/ Begin("h1", "a", "validateToken")
    \/ RedisExec("h1")
    \/ RedisThrow("h1")
    \/ ResumeOk("h1")
    \/ ResumeCatch("h1")

SpecRedis == InitRedis /\ [][NextRedis]_vars

\* Redis is configured but every call to it fails
NextRedisDown ==
    \/ Tick
    \/ \E h \in Handlers : Begin(h, "a", "validateToken")
    \/ \E h \in Handlers : RedisThrow(h)
    \/ \E h \in Handlers : ResumeCatch(h)

SpecRedisDown == InitRedis /\ [][NextRedisDown]_vars

\* either deployment: Redis not configured (every call is local), or
\* configured with a server that may answer or fail each call
InitEither ==
    /\ InitCommon
    /\ redis \in BOOLEAN
    /\ RATE_LIMITS["analyze"] = RATE_LIMITS["validateToken"]

NextEither ==
    \/ Tick
    \/ SweepInMemory
    \/ CheckRateLimitLocal("a", "validateToken")
    \/ Begin("h1", "a", "validateToken")
    \/ RedisExec("h1")
    \/ RedisThrow("h1")
    \/ ResumeOk("h1")
    \/ ResumeCatch("h1")

SpecEither == InitEither /\ [][NextEither]_vars

\* two endpoints with the same window and different limits, Redis healthy
InitRedisPolicies ==
    /\ InitCommon
    /\ redis = TRUE
    /\ RATE_LIMITS["analyze"].windowSec = RATE_LIMITS["validateToken"].windowSec
    /\ RATE_LIMITS["analyze"].limit > RATE_LIMITS["validateToken"].limit

NextRedisPolicies ==
    \/ Tick
    \/ \E n \in PolicyNames : Begin("h1", "a", n)
    \/ RedisExec("h1")
    \/ ResumeOk("h1")

SpecRedisPolicies == InitRedisPolicies /\ [][NextRedisPolicies]_vars

\* --------------------------------- standalone (synchronous) checkRateLimit
\* key = `rate:${identifier}`; the body below the key is the same text as
\* checkRateLimitInMemory (BumpEntry, ResultOf)
RateLimitKey(identifier, config) == identifier

RateLimitStoreAfter(store, identifier, config, t) ==
    [store EXCEPT ![RateLimitKey(identifier, config)] =
        BumpEntry(store[RateLimitKey(identifier, config)], config, t)]

checkRateLimitSync(store, identifier, config, t) ==
    ResultOf(RateLimitStoreAfter(store, identifier, config, t)[RateLimitKey(identifier, config)],
             config, t)

CheckRateLimitSync(identifier, name) ==
    LET config == RATE_LIMITS[name] IN
    /\ Budget(rateLimitStore[RateLimitKey(identifier, config)], now)
    /\ rateLimitStore' = RateLimitStoreAfter(rateLimitStore, identifier, config, now)
    /\ Observe(identifier, config, now,
               checkRateLimitSync(rateLimitStore, identifier, config, now), "sync",
               rateLimitStore[RateLimitKey(identifier, config)],
               rateLimitStore'[RateLimitKey(identifier, config)])
    /\ UNCHANGED <<httpVars, tokenVars, now, RATE_LIMITS, redis, inMemoryStore, rateLimiters,
                   redisStore, pc, call>>

\* setInterval sweep of rateLimitStore (always installed)
SweepRateLimitStore ==
    /\ rateLimitStore' = SweptInMemory(rateLimitStore, now)
    /\ rateLimitStore' # rateLimitStore
    /\ UNCHANGED <<httpVars, tokenVars, now, RATE_LIMITS, redis, inMemoryStore, rateLimiters,
                   redisStore, pc, call, last, ref>>

InitSync ==
    /\ InitCommon
    /\ redis = FALSE

NextSync ==
    \/ Tick
    \/ SweepRateLimitStore
    \/ \E n \in PolicyNames : CheckRateLimitSync("a", n)

SpecSync == InitSync /\ [][NextSync]_vars

\* both limiter modules side by side, each with its sweep, one policy
NextSweeps ==
    \/ Tick
    \/ SweepInMemory
    \/ SweepRateLimitStore
    \/ CheckRateLimitLocal("a", "validateToken")
    \/ CheckRateLimitSync("a", "validateToken")

SpecSweeps == InitLocal /\ [][NextSweeps]_vars

\* ------------------------------------------------------------ token runs
MaxUserIdLen == 2
UserIds == UNION {[1..n -> {"u", "-"}] : n \in 0..MaxUserIdLen}
Secrets == {<<>>, <<"k", "-", "2">>}
IssueDays == {0, 36}
DayMarks == IssueDays \cup {d + VALIDITY + e : d \in IssueDays, e \in {0, 1}}

EffectiveSecrets == {EffectiveSecretOf(sec, prod) : sec \in Secrets, prod \in BOOLEAN}

\* generateToken tabulated over the explored arguments
Generated ==
    [a \in (EffectiveSecrets \ {<<>>}) \X UserIds \X validTiers \X DayMarks |->
        generateToken(a[1], a[2], a[3], a[4])] @@ <<>>


TokenTick ==
    /\ \E m \in DayMarks : m > tokenNow /\ tokenNow' = m
    /\ parsed' = NoParse
    /\ Delivered
    /\ UNCHANGED <<limiterVars, TOKEN_SECRET, IS_PRODUCTION, token, issued>>

\* time passes while a caller holds on to a token and to the answer it got
TokenClock ==
    /\ \E m \in DayMarks : m > tokenNow /\ tokenNow' = m
    /\ UNCHANGED <<httpVars, limiterVars, TOKEN_SECRET, IS_PRODUCTION, token, issued, parsed>>

\* a call of generateToken by the operator
GenerateToken(userId, tier) ==
    /\ IF EFFECTIVE_SECRET = <<>>
       THEN /\ parsed' = [op |-> "generate", at |-> tokenNow, threw |-> TRUE,
                          res |-> Reject(""), hmac |-> FALSE, compare |-> NoCompare,
                          before |-> NoBefore]
            /\ UNCHANGED <<token, issued>>
       ELSE /\ token' = [str |-> TRUE,
                         s |-> Generated[<<EFFECTIVE_SECRET, userId, tier, tokenNow>>]]
            /\ issued' = [by |-> "generate", structOk |-> (\A i \in 1..Len(userId) : userId[i] # "-"), tierOk |-> TRUE,
                          tsOk |-> TRUE, ts |-> tokenNow, sigOk |-> TRUE,
                          userId |-> userId, tier |-> tier]
            /\ parsed' = [op |-> "generate", at |-> tokenNow, threw |-> FALSE,
                          res |-> Reject(""), hmac |-> TRUE, compare |-> NoCompare,
                          before |-> NoBefore]
    /\ Delivered
    /\ UNCHANGED <<limiterVars, tokenNow, TOKEN_SECRET, IS_PRODUCTION>>

\* token values a caller may present: five (or six) fields put together by
\* hand, the signature right, altered or one character short (SigKinds), or
\* one character long or empty (SigLengths)
CraftTiers == {[s |-> premium, ok |-> TRUE],
               [s |-> <<"P", "R", "O">>, ok |-> TRUE],
               [s |-> <<"g", "o", "l", "d">>, ok |-> FALSE]}
CraftStamps == {[s |-> <<"0">>, v |-> 0], [s |-> <<"1", "0">>, v |-> 36],
                [s |-> <<"1", "!">>, v |-> 1], [s |-> <<"!">>, v |-> NaN]}
SigKinds == {"good", "bad", "short"}
SigLengths == {"short", "long", "none"}
Shapes == {"five", "badMagic", "sixFields"}

CraftedToken(secret, shape, tier, stamp, sigKind) ==
    LET data == JoinDash(<<IF shape = "badMagic" THEN <<"X">> ELSE MAGIC,
                           tier.s, stamp.s, <<"u">>>>)
        good == Hmac12(secret, data)
        sig  == CASE sigKind = "good"  -> good
                  [] sigKind = "bad"   -> <<IF good[1] = "0" THEN "1" ELSE "0">> \o Tail(good)
                  [] sigKind = "short" -> SubSeq(good, 1, Len(good) - 1)
                  [] sigKind = "long"  -> good \o <<"0">>
                  [] sigKind = "none"  -> <<>>
    IN  data \o <<"-">> \o sig \o (IF shape = "sixFields" THEN <<"-", "x">> ELSE <<>>)

Crafted ==
    [a \in EffectiveSecrets \X Shapes \X CraftTiers \X CraftStamps
                \X (SigKinds \cup SigLengths) |->
        CraftedToken(a[1], a[2], a[3], a[4], a[5])] @@ <<>>

Craft(shape, tier, stamp, sigKind) ==
    /\ token' = [str |-> TRUE,
                 s |-> Crafted[<<EFFECTIVE_SECRET, shape, tier, stamp, sigKind>>]]
    /\ issued' = [by |-> "craft", structOk |-> (shape = "five"), tierOk |-> tier.ok,
                  tsOk |-> (stamp.v # NaN), ts |-> stamp.v, sigOk |-> (sigKind = "good"),
                  userId |-> <<"u">>, tier |-> ToLower(tier.s)]
    /\ parsed' = NoParse
    /\ Delivered
    /\ UNCHANGED <<limiterVars, tokenNow, TOKEN_SECRET, IS_PRODUCTION>>

\* a value that is no string at all, or the empty string
PresentOther(isString) ==
    /\ token' = [str |-> isString, s |-> <<>>]
    /\ issued' = [NoIssue EXCEPT !.by = "other"]
    /\ parsed' = NoParse
    /\ Delivered
    /\ UNCHANGED <<limiterVars, tokenNow, TOKEN_SECRET, IS_PRODUCTION>>

ParseToken ==
    /\ token # NoToken
    /\ parsed' = [op |-> "parse", at |-> tokenNow,
                  before |-> IF parsed.op = "parse" /\ parsed.at < tokenNow
                             THEN [seen |-> TRUE, at |-> parsed.at, valid |-> parsed.res.valid,
                                   message |-> parsed.res.message]
                             ELSE parsed.before]
                      @@ parseTokenRun(token, tokenNow)
    /\ parsed' # parsed
    /\ UNCHANGED <<httpVars, limiterVars, tokenNow, TOKEN_SECRET, IS_PRODUCTION, token, issued>>

\* an accepted token comes back with one character of its signature field
\* replaced by a different one

Tamper(ch) ==
    /\ parsed.op = "parse" /\ parsed.res.valid
    /\ LET n == Len(token.s)
           sig == Split(token.s)[5]
       IN  \E p \in (n - Len(sig) + 1)..n :
               /\ token.s[p] # ch
               /\ token' = [token EXCEPT !.s[p] = ch]
    /\ issued' = [issued EXCEPT !.by = "tamper", !.sigOk = FALSE,
                                !.structOk = (ch # "-")]
    /\ parsed' = NoParse
    /\ Delivered
    /\ UNCHANGED <<limiterVars, tokenNow, TOKEN_SECRET, IS_PRODUCTION>>

InitToken ==
    /\ InitLimiter
    /\ HttpIdle
    /\ redis = FALSE
    /\ RATE_LIMITS = [n \in PolicyNames |-> [limit |-> 1, windowSec |-> 1]]
    /\ tokenNow = 0
    /\ TOKEN_SECRET \in Secrets
    /\ IS_PRODUCTION \in BOOLEAN
    /\ token = NoToken
    /\ issued = NoIssue
    /\ parsed = NoParse

NextToken ==
    \/ TokenTick
    \/ \E u \in UserIds, t \in validTiers : GenerateToken(u, t)
    \/ \E sh \in Shapes, t \in CraftTiers, st \in CraftStamps, k \in SigKinds :
           Craft(sh, t, st, k)
    \/ \E b \in BOOLEAN : PresentOther(b)
    \/ ParseToken

SpecToken == InitToken /\ [][NextToken]_vars

\* tokens are issued, parsed, altered in the signature and parsed again;
\* some arrive with a signature of another length
NextTamper ==
    \/ TokenTick
    \/ \E u \in UserIds : GenerateToken(u, pro)
    \/ \E t \in CraftTiers, st \in CraftStamps : Craft("five", t, st, "good")
    \/ \E k \in SigLengths :
           Craft("five", [s |-> premium, ok |-> TRUE], [s |-> <<"0">>, v |-> 0], k)
    \/ \E ch \in {"0", "1", "-"} : Tamper(ch)
    \/ ParseToken

SpecTamper == InitToken /\ [][NextTamper]_vars

\* ------------------------------------------------------------- HTTP runs
\* x-forwarded-for as it reaches the handler (Headers strips outer white
\* space), with the address its sender put first
ForwardedChoices ==
    {[h |-> NoHeader, first |-> <<>>],
     [h |-> Header(<<>>), first |-> <<>>],
     [h |-> Header(<<"a">>), first |-> <<"a">>],
     [h |-> Header(<<"a", " ", ",", " ", "b">>), first |-> <<"a">>],
     [h |-> Header(<<"b", ",", "a">>), first |-> <<"b">>],
     [h |-> Header(<<",", "b">>), first |-> <<>>]}
HttpClients == {<<>>, <<"a">>, <<"b">>, UnknownClient}
HttpKeys == HttpClients \X (1..MaxLimit) \X (1..MaxWindowSec)

Request(endpoint, fwd, realIp, body, llm) ==
    [endpoint |-> endpoint, forwarded |-> fwd.h, realIp |-> realIp,
     first |-> fwd.first, body |-> body, llm |-> llm]

\* a request from address "a" behind one proxy
FromA == [h |-> Header(<<"a">>), first |-> <<"a">>]

ValidateBodies == {"badJson", "null", "object"}
AnalyzeBodies == {"badJson", "invalid", "valid"}
LlmOutcomes == {"ok", "invalidResponse", "error"}

\* POST /api/validate-token with the synchronous checkRateLimit; the body
\* carries the token at hand
PostValidateToken(fwd, realIp, body) ==
    LET req == Request("validateToken", fwd, realIp, body, "none")
        clientId == getClientIdentifier(req)
        config == RATE_LIMITS["validateToken"]
        rateLimit == checkRateLimitSync(rateLimitStore, clientId, config, now)
    IN  /\ Budget(rateLimitStore[RateLimitKey(clientId, config)], now)
        /\ rateLimitStore' = RateLimitStoreAfter(rateLimitStore, clientId, config, now)
        /\ Observe(clientId, config, now, rateLimit, "sync",
                   rateLimitStore[RateLimitKey(clientId, config)],
                   rateLimitStore'[RateLimitKey(clientId, config)])
        /\ request' = req
        /\ response' = ValidateTokenResponse(Settled(rateLimit), body, token, tokenNow)
        /\ UNCHANGED <<tokenVars, now, RATE_LIMITS, redis, inMemoryStore, rateLimiters,
                       redisStore, pc, call>>

\* POST /api/analyze with the synchronous checkRateLimit
PostAnalyze(fwd, realIp, body, llm) ==
    LET req == Request("analyze", fwd, realIp, body, llm)
        clientId == getClientIdentifier(req)
        config == RATE_LIMITS["analyze"]
        rateLimit == checkRateLimitSync(rateLimitStore, clientId, config, now)
    IN  /\ Budget(rateLimitStore[RateLimitKey(clientId, config)], now)
        /\ rateLimitStore' = RateLimitStoreAfter(rateLimitStore, clientId, config, now)
        /\ Observe(clientId, config, now, rateLimit, "sync",
                   rateLimitStore[RateLimitKey(clientId, config)],
                   rateLimitStore'[RateLimitKey(clientId, config)])
        /\ request' = req
        /\ response' = AnalyzeResponse(Settled(rateLimit), body, llm)
        /\ UNCHANGED <<tokenVars, now, RATE_LIMITS, redis, inMemoryStore, rateLimiters,
                       redisStore, pc, call>>

\* the same handlers importing the Redis-capable module, no Redis configured:
\* the async function runs checkRateLimitInMemory before it returns its
\* Promise, and the handler goes on with the Promise
PostValidateTokenAsync(fwd, realIp, body) ==
    LET req == Request("validateToken", fwd, realIp, body, "none")
        clientId == getClientIdentifier(req)
        config == RATE_LIMITS["validateToken"]
        rateLimit == checkRateLimitInMemory(inMemoryStore, clientId, config, now)
    IN  /\ ~redis
        /\ Budget(inMemoryStore[InMemoryKey(clientId, config)], now)
        /\ inMemoryStore' = InMemoryStoreAfter(inMemoryStore, clientId, config, now)
        /\ Observe(clientId, config, now, rateLimit, "local",
                   inMemoryStore[InMemoryKey(clientId, config)],
                   inMemoryStore'[InMemoryKey(clientId, config)])
        /\ request' = req
        /\ response' = ValidateTokenResponse(Pending(rateLimit), body, token, tokenNow)
        /\ UNCHANGED <<tokenVars, now, RATE_LIMITS, redis, rateLimitStore, rateLimiters,
                       redisStore, pc, call>>

PostAnalyzeAsync(fwd, realIp, body, llm) ==
    LET req == Request("analyze", fwd, realIp, body, llm)
        clientId == getClientIdentifier(req)
        config == RATE_LIMITS["analyze"]
        rateLimit == checkRateLimitInMemory(inMemoryStore, clientId, config, now)
    IN  /\ ~redis
        /\ Budget(inMemoryStore[InMemoryKey(clientId, config)], now)
        /\ inMemoryStore' = InMemoryStoreAfter(inMemoryStore, clientId, config, now)
        /\ Observe(clientId, config, now, rateLimit, "local",
                   inMemoryStore[InMemoryKey(clientId, config)],
                   inMemoryStore'[InMemoryKey(clientId, config)])
        /\ request' = req
        /\ response' = AnalyzeResponse(Pending(rateLimit), body, llm)
        /\ UNCHANGED <<tokenVars, now, RATE_LIMITS, redis, rateLimitStore, rateLimiters,
                       redisStore, pc, call>>

\* 'AFKMATE-' followed by filler, n characters in all
SizedToken(n) == [i \in 1..n |-> IF i <= Len(MAGIC) THEN MAGIC[i]
                                 ELSE IF i = Len(MAGIC) + 1 THEN "-" ELSE "x"]

PresentSized(n) ==
    /\ token' = [str |-> TRUE, s |-> SizedToken(n)]
    /\ issued' = [NoIssue EXCEPT !.by = "sized"]
    /\ parsed' = NoParse
    /\ Delivered
    /\ UNCHANGED <<limiterVars, tokenNow, TOKEN_SECRET, IS_PRODUCTION>>

\* values of every kind are parsed, and parsed again as time passes
NextParse ==
    \/ TokenClock
    \/ GenerateToken(<<"u">>, pro)
    \/ \E t \in CraftTiers, st \in CraftStamps : Craft("five", t, st, "good")
    \/ \E sh \in Shapes, k \in SigKinds \cup SigLengths :
           Craft(sh, [s |-> premium, ok |-> TRUE], [s |-> <<"0">>, v |-> 0], k)
    \/ \E b \in BOOLEAN : PresentOther(b)
    \/ PresentSized(TokenMinLen)
    \/ ParseToken

SpecParse == InitToken /\ [][NextParse]_vars

\* both policies at most one second wide, so that windows fill and expire
InitHttp ==
    /\ now = 0
    /\ redis = FALSE
    /\ \E l \in 1..MaxLimit :
           RATE_LIMITS = [n \in PolicyNames |-> [limit |-> l, windowSec |-> 1]]
    /\ inMemoryStore = [k \in HttpKeys |-> NoEntry]
    /\ rateLimitStore = [c \in HttpClients |-> NoEntry]
    /\ rateLimiters = {}
    /\ redisStore = [k \in RedisKeys |-> NoRedisEntry]
    /\ pc = [h \in Handlers |-> "idle"]
    /\ call = [h \in Handlers |-> NoCall]
    /\ last = NoLast
    /\ ref = [k \in HttpKeys |-> NoWindow]
    /\ tokenNow = 0
    /\ TOKEN_SECRET \in Secrets
    /\ IS_PRODUCTION \in BOOLEAN
    /\ token = NoToken
    /\ issued = NoIssue
    /\ parsed = NoParse
    /\ HttpIdle

InitHttpConfigured ==
    /\ InitHttp
    /\ TOKEN_SECRET # <<>>
    /\ ~IS_PRODUCTION

\* the tokens a caller sends to the validation endpoint
PresentToken ==
    \/ \E u \in {<<"u">>, <<"-">>} : GenerateToken(u, pro)
    \/ \E t \in CraftTiers, st \in CraftStamps : Craft("five", t, st, "good")
    \/ \E sh \in Shapes, k \in SigKinds :
           Craft(sh, [s |-> premium, ok |-> TRUE], [s |-> <<"0">>, v |-> 0], k)
    \/ \E b \in BOOLEAN : PresentOther(b)
    \/ \E n \in {TokenMinLen - 1, TokenMinLen, TokenMaxLen, TokenMaxLen + 1} : PresentSized(n)

\* the validation endpoint, one caller, synchronous limiter; the requests of
\* a run fall into one rate-limit window
NextHttp ==
    \/ TokenTick
    \/ PresentToken
    \/ \E b \in ValidateBodies : PostValidateToken(FromA, NoHeader, b)

SpecHttp == InitHttp /\ [][NextHttp]_vars

\* the analysis endpoint, one caller, synchronous limiter
NextAnalyze ==
    \/ Tick
    \/ \E b \in AnalyzeBodies, l \in LlmOutcomes : PostAnalyze(FromA, NoHeader, b, l)

SpecAnalyze == InitHttpConfigured /\ [][NextAnalyze]_vars

\* both endpoints, one caller, the Redis-capable limiter without Redis
NextHttpAsync ==
    \/ Tick
    \/ \E b \in BOOLEAN : PresentOther(b)
    \/ \E b \in ValidateBodies : PostValidateTokenAsync(FromA, NoHeader, b)
    \/ \E b \in AnalyzeBodies, l \in LlmOutcomes : PostAnalyzeAsync(FromA, NoHeader, b, l)

SpecHttpAsync == InitHttpConfigured /\ [][NextHttpAsync]_vars

\* callers told apart by their forwarding headers, within one window
NextIdentify ==
    \/ \E f \in ForwardedChoices, r \in {NoHeader, Header(<<>>), Header(<<"b">>)} : PostAnalyze(f, r, "valid", "ok")

SpecIdentify == InitHttpConfigured /\ [][NextIdentify]_vars

\* the scheduler runs a ready continuation; nothing obliges the server to answer
FairSpecRedis ==
    SpecRedis /\ WF_vars(ResumeOk("h1")) /\ WF_vars(ResumeCatch("h1"))

\* the sweep timer, where installed, keeps firing; ready continuations run
FairSpecEither ==
    SpecEither /\ WF_vars(SweepInMemory)
               /\ WF_vars(ResumeOk("h1")) /\ WF_vars(ResumeCatch("h1"))

LastKey == InMemoryKey(last.id, last.config)

\* C1: in the local backend the k-th consecutive admit call of a window is
\* allowed exactly when k <= limit and reports remaining = max(0, limit - k).
C1_KthCallAllowedIffWithinLimit ==
    (last.valid /\ last.backend = "local") =>
        LET k == ref[LastKey].calls
            L == last.config.limit
        IN  /\ last.res.success = (k <= L)
            /\ last.res.remaining = Max(0, L - k)
            /\ last.res.limit = L

C1_Witness ==
    /\ last.valid /\ last.backend = "local"
    /\ ref[LastKey].calls = last.config.limit + 1
    /\ ~last.res.success /\ last.res.remaining = 0
    /\ last.config.limit = MaxLimit

\* C3: a local counter whose window has elapsed (now > resetTime) is treated
\* as absent -- the call is allowed with remaining = limit - 1 and installs a
\* counter with resetTime = now + windowSec -- while a call at exactly
\* now = resetTime still counts on the old counter.
C3_ExpiredCounterIsAbsent ==
    (last.valid /\ last.backend = "local" /\ last.stale.present) =>
        /\ last.at > last.stale.resetTime =>
              /\ last.res.success
              /\ last.res.remaining = last.config.limit - 1
              /\ last.installed = Entry(1, last.at + last.config.windowSec * MsPerSec)
        /\ last.at = last.stale.resetTime =>
              /\ last.installed = Entry(last.stale.count + 1, last.stale.resetTime)
              /\ last.res.success = (last.stale.count + 1 <= last.config.limit)

C3_Witness ==
    /\ last.valid /\ last.backend = "local" /\ last.stale.present
    /\ last.at > last.stale.resetTime
    /\ last.stale.count > last.config.limit
    /\ last.res.success

C3_WitnessBoundary ==
    /\ last.valid /\ last.backend = "local" /\ last.stale.present
    /\ last.at = last.stale.resetTime
    /\ ~last.res.success

\* C6: an admit call of the in-memory fallback for one clientId leaves every
\* counter of every other clientId exactly as it was.
C6_OtherClientsCountersUntouched ==
    [][ref' # ref =>
          \A k \in InMemoryKeys :
              k[1] # last'.id => inMemoryStore'[k] = inMemoryStore[k]]_vars

C6_Witness ==
    \E l \in 1..MaxLimit, w \in 1..MaxWindowSec :
        /\ inMemoryStore[<<"a", l, w>>].present
        /\ inMemoryStore[<<"b", l, w>>].present
        /\ inMemoryStore[<<"a", l, w>>].count > l
        /\ inMemoryStore[<<"b", l, w>>].count = 1
        /\ last.valid /\ last.id = "b" /\ last.res.success

\* C2: for every clientId and policy, whatever mixture of distributed and
\* fallback decisions served the calls, at most `limit` calls of one window
\* return success = true.
C2_AtMostLimitAdmissionsPerWindow ==
    \A k \in InMemoryKeys : ref[k].admits <= k[2]

\* what the local backend alone returns for the last call
LocalAloneResult ==
    [success   |-> ref[LastKey].calls <= last.config.limit,
     limit     |-> last.config.limit,
     remaining |-> Max(0, last.config.limit - ref[LastKey].calls),
     resetIn   |-> Ceil(ref[LastKey].start + last.config.windowSec * MsPerSec - last.at,
                        MsPerSec)]

\* C4: with Redis configured and every call to it failing, no exception
\* reaches the caller and each result is the one the local backend alone
\* gives for the same calls.
C4_FallbackEqualsLocalBackend ==
    /\ \A h \in Handlers : pc[h] # "threw"
    /\ last.valid => (last.backend = "local" /\ last.res = LocalAloneResult)

C4_Witness ==
    /\ redis
    /\ last.valid /\ last.backend = "local"
    /\ ~last.res.success
    /\ ref[LastKey].calls = last.config.limit + 1
    /\ last.at > 0

\* C5: a checkRateLimit call whose distributed check does not complete is
\* nevertheless answered (by the local backend).
C5_EveryCallReturns ==
    (pc["h1"] = "awaiting") ~> (pc["h1"] = "idle")

\* C8: the server-held count consulted for (clientId, policy) is not changed
\* by a request of the same clientId under a different policy.
C8_SeparateCountersPerPolicy ==
    [][\A h \in Handlers :
          (pc[h] = "awaiting" /\ pc'[h] = "replied") =>
              \A n \in PolicyNames :
                  RATE_LIMITS[n] # call[h].config =>
                      RedisUsed(redisStore', call[h].id, RATE_LIMITS[n], now)
                          = RedisUsed(redisStore, call[h].id, RATE_LIMITS[n], now)]_vars

\* C7: in the standalone limiter the result a clientId gets under one named
\* policy is the result of a counter of its own (clientId, limit, windowSec),
\* whatever the same clientId did under another policy.
C7_PoliciesCountedSeparately ==
    (last.valid /\ last.backend = "sync") => last.res = LocalAloneResult

\* C9: a token made by generateToken(subjectId, tier), parsed before it
\* expires, is accepted with payload.userId = subjectId and payload.tier = tier.
C9_ParseOfGenerateRoundTrips ==
    (issued.by = "generate" /\ parsed.op = "parse" /\ parsed.at <= issued.ts + VALIDITY) =>
        /\ parsed.res.valid
        /\ parsed.res.payload.userId = issued.userId
        /\ parsed.res.payload.tier = issued.tier

\* C10: a well-formed token with a valid tier and timestamp is rejected as
\* expired exactly when now > issuedAt + 365 days, whatever its signature; a
\* correctly signed one is accepted exactly until then.
C10_ExpiredExactlyAfterValidity ==
    (parsed.op = "parse" /\ issued.structOk /\ issued.tierOk /\ issued.tsOk) =>
        /\ (parsed.res.message = "Token has expired") = (parsed.at > issued.ts + VALIDITY)
        /\ issued.sigOk => (parsed.res.valid = (parsed.at <= issued.ts + VALIDITY))

C10_Witness ==
    /\ parsed.op = "parse" /\ issued.structOk /\ issued.tierOk /\ issued.tsOk
    /\ issued.sigOk /\ issued.ts > 0
    /\ parsed.at = issued.ts + VALIDITY
    /\ parsed.res.valid

C10_WitnessExpired ==
    /\ parsed.op = "parse" /\ issued.structOk /\ issued.tierOk /\ issued.tsOk
    /\ ~issued.sigOk
    /\ parsed.at = issued.ts + VALIDITY + 1
    /\ parsed.res.message = "Token has expired"

\* C11 (as stated): once one character of an accepted token's signature
\* field is replaced by a different character, parseToken answers 'Invalid
\* token signature'; a token whose signature field is not the recomputed
\* HMAC prefix is never accepted.
C11_TamperedSignatureIsInvalidSignature ==
    (parsed.op = "parse" /\ ~issued.sigOk) =>
        /\ ~parsed.res.valid
        /\ (issued.by = "tamper" /\ parsed.at <= issued.ts + VALIDITY) =>
               parsed.res.message = "Invalid token signature"

\* C11 (amended): the altered token is always rejected -- with 'Invalid token
\* signature', or with 'Invalid token format' when the replacement character
\* is the field delimiter '-' -- and a token whose signature field is not
\* the recomputed HMAC prefix is never accepted.
C11_TamperedSignatureIsRejected ==
    (parsed.op = "parse" /\ ~issued.sigOk) =>
        /\ ~parsed.res.valid
        /\ (issued.by = "tamper" /\ parsed.at <= issued.ts + VALIDITY) =>
               parsed.res.message = (IF issued.structOk THEN "Invalid token signature"
                                     ELSE "Invalid token format")

C11_Witness ==
    /\ parsed.op = "parse" /\ issued.by = "tamper" /\ issued.structOk
    /\ parsed.at <= issued.ts + VALIDITY
    /\ token.s[Len(token.s)] = "0"
    /\ parsed.res.message = "Invalid token signature"

C11_WitnessDelimiter ==
    /\ parsed.op = "parse" /\ issued.by = "tamper" /\ ~issued.structOk
    /\ parsed.at <= issued.ts + VALIDITY
    /\ parsed.res.message = "Invalid token format"

\* C12: parseToken returns a payload only together with valid = true and only
\* for a token whose signature field is the HMAC of its first four fields
\* under the current secret; a rejecting result carries no payload; an
\* accepted payload has the token's timestamp as issuedAt, expiresAt =
\* issuedAt + 365 days and a tier in {premium, pro, enterprise}.
C12_PayloadOnlyWithVerifiedSignature ==
    parsed.op = "parse" =>
        /\ parsed.res.hasPayload = parsed.res.valid
        /\ parsed.res.hasPayload =>
              /\ issued.sigOk
              /\ parsed.res.payload.issuedAt = issued.ts
              /\ parsed.res.payload.expiresAt = parsed.res.payload.issuedAt + VALIDITY
              /\ parsed.res.payload.tier \in {premium, pro, enterprise}

C12_Witness ==
    /\ parsed.op = "parse" /\ issued.by = "craft"
    /\ parsed.res.valid /\ parsed.res.hasPayload
    /\ parsed.res.payload.tier = pro /\ token.s[9] = "P"
    /\ parsed.res.payload.issuedAt = 36

C12_WitnessRejected ==
    /\ parsed.op = "parse" /\ issued.by = "craft"
    /\ issued.structOk /\ issued.tierOk /\ issued.tsOk /\ ~issued.sigOk
    /\ ~parsed.res.valid /\ ~parsed.res.hasPayload
    /\ parsed.res.message = "Invalid token signature"

\* C14: with the secret absent in production parseToken returns valid = false
\* for every token, one signed with the empty key included.
C14_NoSecretInProductionRejectsAll ==
    (IS_PRODUCTION /\ TOKEN_SECRET = <<>> /\ parsed.op = "parse") => ~parsed.res.valid

\* C15: generateToken fails with 'secret not configured' exactly when
\* AFKMATE_TOKEN_SECRET is not configured, in production or not.
C15_GenerateFailsWithoutSecret ==
    parsed.op = "generate" => (parsed.threw = (TOKEN_SECRET = <<>>))

\* C13: with the secret absent in production every request to the validation
\* endpoint is answered 503 -- never valid = true, never a 4xx status, a
\* rate-limited caller included.
C13_NoSecretInProductionAnswers503 ==
    (IS_PRODUCTION /\ TOKEN_SECRET = <<>> /\ request.endpoint = "validateToken") =>
        /\ response.status = 503
        /\ ~response.valid

\* C16: every response of a rate-limited endpoint, whatever its status,
\* carries the limit, the remaining count and the seconds until reset.
C16_EveryResponseCarriesAdvisoryHeaders ==
    request.endpoint # "none" => AdvisoryHeaders \subseteq response.headers

\* C17: a request is answered 429 exactly when the limiter's result for it
\* has success = false; a denied request reaches neither parseToken nor the
\* LLM call -- here with the asynchronous checkRateLimit.
C17_Answered429IffLimiterDenied ==
    request.endpoint # "none" =>
        /\ (response.status = 429) = ~last.res.success
        /\ ~last.res.success => (~response.parseTokenCalled /\ ~response.llmCalled)

ParseErrors == {"Token is required", "Invalid token format", "Invalid subscription tier",
                "Invalid token timestamp", "Token has expired", "Invalid token signature"}
\* C18: every token rejection of the validation endpoint carries one and the
\* same status, whichever check rejected the token: the status of this
\* rejection is the status each reference rejected token is answered with
\* (the empty string, rejected by the format pre-check, and 'AFKMATE-' with
\* filler, rejected by parseToken).
C18_TokenRejectionsShareOneStatus ==
    (/\ response.status # 0
     /\ ~response.valid
     /\ response.message \in ParseErrors \cup {"Token must be a non-empty string", "Token too long",
                                             "Token too short", "Invalid token format"}) =>
        \A tok \in {[str |-> TRUE, s |-> <<>>], [str |-> TRUE, s |-> SizedToken(TokenMinLen)]} :
            ValidateTokenResponse(
                Settled([success |-> TRUE, limit |-> 1, remaining |-> 0, resetIn |-> 1]),
                "object", tok, tokenNow).status = response.status

SentinelCounted ==
    (~request.forwarded.present /\ ~request.realIp.present) =>
        /\ last.id = UnknownClient
        /\ rateLimitStore[UnknownClient].present
        /\ last.installed = rateLimitStore[UnknownClient]

\* C19 (as stated): the request is counted under the first address of
\* x-forwarded-for, trimmed, when that header is present and non-empty,
\* otherwise under the x-real-ip value when that header is present, otherwise
\* under 'unknown-client'; requests without either header share that counter.
C19_ClientIdentifierRealIpWhenPresent ==
    request.endpoint # "none" =>
        /\ last.id = IF request.forwarded.present /\ request.forwarded.v # <<>>
                     THEN request.first
                     ELSE IF request.realIp.present THEN request.realIp.v
                     ELSE UnknownClient
        /\ SentinelCounted

\* C19 (amended): as above, with x-real-ip used when present and non-empty.
C19_ClientIdentifierByHeaders ==
    request.endpoint # "none" =>
        /\ last.id = IF request.forwarded.present /\ request.forwarded.v # <<>>
                     THEN request.first
                     ELSE IF request.realIp.present /\ request.realIp.v # <<>>
                     THEN request.realIp.v
                     ELSE UnknownClient
        /\ SentinelCounted

C19_Witness ==
    /\ request.endpoint # "none"
    /\ request.forwarded = Header(<<"a", " ", ",", " ", "b">>)
    /\ request.realIp = Header(<<"b">>)
    /\ last.id = <<"a">>

C19_WitnessSentinel ==
    /\ request.endpoint # "none"
    /\ ~request.forwarded.present /\ ~request.realIp.present
    /\ last.id = UnknownClient
    /\ response.status = 429
    /\ rateLimitStore[UnknownClient].count = last.config.limit + 1

C19_WitnessRealIp ==
    /\ request.endpoint # "none"
    /\ request.forwarded = Header(<<>>) /\ request.realIp = Header(<<"b">>)
    /\ last.id = <<"b">>

WellFormedForParse(tok) ==
    /\ tok.str
    /\ Len(tok.s) >= 20 /\ Len(tok.s) <= 200
    /\ Len(tok.s) >= 8 /\ SubSeq(tok.s, 1, 8) = <<"A", "F", "K", "M", "A", "T", "E", "-">>

\* C20: the validation endpoint answers 400 without calling parseToken for
\* every token that is no string, is shorter than 20 or longer than 200
\* characters or does not start with 'AFKMATE-'; every other token that
\* reaches the token checks is handed to parseToken.
C20_FormatGateBeforeParseToken ==
    request.endpoint = "validateToken" =>
        /\ ~WellFormedForParse(token) => ~response.parseTokenCalled
        /\ (request.body = "object" /\ response.status \notin {429, 503}) =>
              /\ response.parseTokenCalled = WellFormedForParse(token)
              /\ ~WellFormedForParse(token) => (response.status = 400 /\ ~response.valid)

C20_Witness ==
    /\ request.endpoint = "validateToken" /\ request.body = "object"
    /\ token.str /\ Len(token.s) = 19
    /\ response.status = 400 /\ response.message = "Token too short"
    /\ ~response.parseTokenCalled

C20_WitnessPassed ==
    /\ request.endpoint = "validateToken" /\ request.body = "object"
    /\ token.str /\ Len(token.s) = 200
    /\ response.parseTokenCalled /\ response.status = 401

C20_WitnessLong ==
    /\ request.endpoint = "validateToken" /\ request.body = "object"
    /\ token.str /\ Len(token.s) = 201
    /\ response.status = 400 /\ response.message = "Token too long"

C20_WitnessPrefix ==
    /\ request.endpoint = "validateToken" /\ request.body = "object"
    /\ token.str /\ token.s[1] = "X" /\ Len(token.s) >= 20
    /\ response.status = 400 /\ response.message = "Invalid token format"
    /\ ~response.parseTokenCalled

ProvidedSignature == Split(token.s)[5]

C21_WitnessLength ==
    /\ parsed.op = "parse" /\ issued.by = "craft"
    /\ parsed.res.message = "Invalid token signature"
    /\ Len(ProvidedSignature) = SignatureLen + 1
    /\ ~parsed.compare.called

\* the first check, in the order structure, tier, timestamp, expiry,
\* signature, that the token at hand fails at the instant of the last parse
\* ("" when it fails none), read off the way the token was put together
EarliestFailure ==
    IF ~issued.structOk THEN "Invalid token format"
    ELSE IF ~issued.tierOk THEN "Invalid subscription tier"
    ELSE IF ~issued.tsOk THEN "Invalid token timestamp"
    ELSE IF parsed.at > issued.ts + VALIDITY THEN "Token has expired"
    ELSE IF ~issued.sigOk THEN "Invalid token signature"
    ELSE ""

\* C22: parseToken rejects a token with the kind of the earliest check, in the
\* order structure, tier, timestamp, expiry, signature, that the token fails,
\* accepts it when it fails none, and computes the HMAC only for a token that
\* passes the first four.
C22_RejectionIsEarliestFailedCheck ==
    (parsed.op = "parse" /\ issued.by \in {"craft", "generate"}) =>
        /\ parsed.res.message = EarliestFailure
        /\ parsed.res.valid = (EarliestFailure = "")
        /\ parsed.hmac => EarliestFailure \in {"", "Invalid token signature"}

C22_Witness ==
    /\ parsed.op = "parse" /\ issued.by = "craft"
    /\ issued.structOk /\ ~issued.tierOk /\ issued.tsOk /\ ~issued.sigOk
    /\ parsed.res.message = "Invalid subscription tier"
    /\ ~parsed.hmac

C22_WitnessExpired ==
    /\ parsed.op = "parse" /\ issued.by = "craft"
    /\ issued.structOk /\ issued.tierOk /\ issued.tsOk /\ ~issued.sigOk
    /\ parsed.at > issued.ts + VALIDITY
    /\ parsed.res.message = "Token has expired"
    /\ ~parsed.hmac

C22_WitnessSignature ==
    /\ parsed.op = "parse" /\ issued.by = "craft"
    /\ ~issued.sigOk /\ parsed.hmac
    /\ parsed.res.message = "Invalid token signature"

\* C23: the fallback is scoped to the one request whose distributed call
\* failed.  A call whose distributed call succeeds leaves the in-memory store
\* as it was and returns the server's reply; with Redis configured every call
\* first goes to the server, a call after a failed one included, and the
\* in-memory store changes only in a call whose own distributed call failed;
\* without Redis the server is never called.
C23_FallbackScopedToFailedRequest ==
    [][/\ \A h \in Handlers :
              /\ (pc[h] = "replied" /\ pc'[h] = "idle") =>
                     /\ inMemoryStore' = inMemoryStore
                     /\ last'.backend = "redis"
                     /\ last'.res = [success   |-> call[h].reply.success,
                                    limit     |-> call[h].reply.limit,
                                    remaining |-> call[h].reply.remaining,
                                    resetIn   |-> Ceil(call[h].reply.reset - now, MsPerSec)]
              /\ (pc[h] = "idle" /\ pc'[h] # "idle") => (redis /\ pc'[h] = "awaiting")
              /\ (pc[h] # "failed" /\ pc'[h] = "failed") => pc[h] = "awaiting"
       /\ (redis /\ inMemoryStore' # inMemoryStore) =>
              \E h \in Handlers : pc[h] = "failed" /\ pc'[h] = "idle"
       /\ (redis /\ last' # last) => \E h \in Handlers : pc[h] \in {"replied", "failed"}
       /\ ~redis => /\ redisStore' = redisStore
                    /\ rateLimiters' = rateLimiters
                    /\ pc' = pc]_vars

C23_Witness ==
    /\ redis
    /\ last.valid /\ last.backend = "redis"
    /\ \E k \in InMemoryKeys : inMemoryStore[k].present /\ now <= inMemoryStore[k].resetTime

C23_WitnessNextCall ==
    /\ redis
    /\ last.valid /\ last.backend = "local"
    /\ pc["h1"] = "replied"

C23_WitnessNoRedis ==
    /\ ~redis
    /\ last.valid /\ last.backend = "local" /\ ~last.res.success
    /\ rateLimiters = {}

\* the local counter of client "a" is stored and its window has elapsed
ElapsedCounterStored ==
    LET entry == inMemoryStore[InMemoryKey("a", RATE_LIMITS["validateToken"])]
    IN  entry.present /\ now > entry.resetTime

\* C24: a counter stored in the local map whose window has elapsed is
\* eventually removed, in every configuration in which the map can be
\* populated, the one with Redis configured and the map filled by fallback
\* calls included.
C24_ElapsedCounterEventuallyRemoved ==
    ElapsedCounterStored ~> ~ElapsedCounterStored

Live(entry) == entry.present /\ now <= entry.resetTime

\* C25: the count of a live local counter is the number of admit calls made
\* for its key since the counter was created, however the handlers that fell
\* back to the local backend interleave.
C25_CountEqualsCallsSinceCreation ==
    \A k \in InMemoryKeys :
        Live(inMemoryStore[k]) =>
            /\ ref[k].open
            /\ inMemoryStore[k].resetTime = ref[k].start + k[3] * MsPerSec
            /\ inMemoryStore[k].count = ref[k].calls

C25_Witness ==
    /\ pc["h1"] = "failed" /\ pc["h2"] = "idle"
    /\ last.valid /\ last.backend = "local"
    /\ Live(inMemoryStore[LastKey])
    /\ inMemoryStore[LastKey].count = 2
    /\ ref[LastKey].calls = 2

\* C26: an admit call of the local backend made while the key's counter is
\* live (now <= resetTime) leaves that counter's resetTime as it was, whether
\* the call is admitted or denied.
C26_LiveWindowEndIsFixed ==
    [][ref' # ref =>
          \A k \in InMemoryKeys :
              Live(inMemoryStore[k]) =>
                  /\ inMemoryStore'[k].present
                  /\ inMemoryStore'[k].resetTime = inMemoryStore[k].resetTime]_vars

C26_Witness ==
    /\ last.valid /\ last.backend = "local" /\ ~last.res.success
    /\ last.stale.present /\ last.at = last.stale.resetTime - HalfSec
    /\ last.installed.resetTime = last.stale.resetTime
    /\ last.installed.count = last.stale.count + 1

C26_WitnessAdmitted ==
    /\ last.valid /\ last.backend = "local" /\ last.res.success
    /\ last.stale.present /\ last.at = last.stale.resetTime
    /\ last.installed.resetTime = last.stale.resetTime

\* C27: with the secret fixed, a token value that parseToken rejected at one
\* instant is rejected when parsed again at any later instant, with the same
\* kind or with 'Token has expired'.
C27_RejectedStaysRejected ==
    (parsed.op = "parse" /\ parsed.before.seen /\ ~parsed.before.valid) =>
        /\ ~parsed.res.valid
        /\ parsed.res.message \in {parsed.before.message, "Token has expired"}

C27_Witness ==
    /\ parsed.op = "parse" /\ parsed.before.seen
    /\ parsed.before.message = "Invalid token signature"
    /\ parsed.before.at < parsed.at
    /\ parsed.res.message = "Token has expired"

C27_WitnessSameKind ==
    /\ parsed.op = "parse" /\ parsed.before.seen
    /\ parsed.before.message = "Invalid token signature"
    /\ parsed.before.at = 0 /\ parsed.at = VALIDITY
    /\ parsed.res.message = "Invalid token signature"

\* C28: for every input value -- no string, the empty string, any number of
\* fields, a signature field of any length or content -- parseToken returns
\* {valid: true, payload} or {valid: false, message} and does not throw; the
\* constant-time comparison is called only on buffers of equal length.
C28_TypedResultNeverThrows ==
    parsed.op = "parse" =>
        /\ ~parsed.threw
        /\ IF parsed.res.valid
           THEN parsed.res.hasPayload /\ parsed.res.message = ""
           ELSE ~parsed.res.hasPayload /\ parsed.res.message \in ParseErrors
        /\ parsed.compare.called =>
               (token.str /\ Len(ProvidedSignature) = SignatureLen /\ ~parsed.compare.threw)

C28_Witness ==
    /\ parsed.op = "parse" /\ issued.by = "craft" /\ issued.structOk
    /\ Len(ProvidedSignature) = SignatureLen - 1
    /\ ~parsed.threw /\ ~parsed.compare.called
    /\ ~parsed.res.valid /\ parsed.res.message = "Invalid token signature"

C28_WitnessEmptySignature ==
    /\ parsed.op = "parse" /\ issued.by = "craft" /\ issued.structOk
    /\ token.s[Len(token.s)] = "-"
    /\ ~parsed.threw /\ parsed.res.message = "Invalid token signature"

C28_WitnessNoString ==
    /\ parsed.op = "parse" /\ ~token.str
    /\ ~parsed.threw /\ parsed.res.message = "Token is required"

C28_WitnessTwoFields ==
    /\ parsed.op = "parse" /\ issued.by = "sized"
    /\ Len(Split(token.s)) = 2
    /\ ~parsed.threw /\ parsed.res.message = "Invalid token format"

C28_WitnessCompared ==
    /\ parsed.op = "parse" /\ parsed.compare.called /\ ~parsed.compare.equal
    /\ ~parsed.threw /\ parsed.res.message = "Invalid token signature"

\* the instants from now on at which a call can be made

\* C29: the sweep removes only counters with now > resetTime, never a live
\* one, and admit does not show whether it ran: after a sweep every admit
\* call, whenever it is made, returns the result and stores the counter it
\* would have returned and stored had the sweep not run -- in the
\* Redis-capable module's local map and in the standalone module's map.
C29_SweepRemovesOnlyElapsedUnobserved ==
    [][(last' = last /\ <<inMemoryStore', rateLimitStore'>> # <<inMemoryStore, rateLimitStore>>) =>
          /\ \A k \in InMemoryKeys :
                 inMemoryStore'[k] # inMemoryStore[k] =>
                     /\ inMemoryStore[k].present
                     /\ now > inMemoryStore[k].resetTime
                     /\ inMemoryStore'[k] = NoEntry
          /\ \A c \in Clients :
                 rateLimitStore'[c] # rateLimitStore[c] =>
                     /\ rateLimitStore[c].present
                     /\ now > rateLimitStore[c].resetTime
                     /\ rateLimitStore'[c] = NoEntry
          /\ \A c \in Clients, config \in PolicySpace, 
                    t \in {now + i * HalfSec : i \in 0..(2 * MaxSec)} :
                 /\ checkRateLimitInMemory(inMemoryStore', c, config, t)
                        = checkRateLimitInMemory(inMemoryStore, c, config, t)
                 /\ InMemoryStoreAfter(inMemoryStore', c, config, t)[InMemoryKey(c, config)]
                        = InMemoryStoreAfter(inMemoryStore, c, config, t)[InMemoryKey(c, config)]
                 /\ checkRateLimitSync(rateLimitStore', c, config, t)
                        = checkRateLimitSync(rateLimitStore, c, config, t)
                 /\ RateLimitStoreAfter(rateLimitStore', c, config, t)[RateLimitKey(c, config)]
                        = RateLimitStoreAfter(rateLimitStore, c, config, t)[RateLimitKey(c, config)]]_vars

C29_Witness ==
    /\ last.valid /\ last.backend = "local" /\ ~last.res.success
    /\ ~inMemoryStore[LastKey].present
    /\ ~rateLimitStore["a"].present

C29_WitnessStandalone ==
    /\ last.valid /\ last.backend = "sync" /\ last.installed.present
    /\ ~rateLimitStore[last.id].present

C29_WitnessKept ==
    /\ last.valid /\ last.backend = "sync" /\ last.installed.present
    /\ ~rateLimitStore[last.id].present
    /\ \E k \in InMemoryKeys :
           inMemoryStore[k].present /\ now = inMemoryStore[k].resetTime

\* C30: every result of the local backend has 0 <= resetIn <= windowSec and
\* 0 <= remaining <= limit - 1, with remaining = 0 when success is false;
\* resetIn = windowSec on the call that creates a counter, and resetIn = 0
\* only on a call made at exactly now = resetTime.
C30_ResultWithinBounds ==
    (last.valid /\ last.backend \in {"local", "sync"}) =>
        /\ 0 <= last.res.resetIn /\ last.res.resetIn <= last.config.windowSec
        /\ 0 <= last.res.remaining /\ last.res.remaining <= last.config.limit - 1
        /\ ~last.res.success => last.res.remaining = 0
        /\ (~last.stale.present \/ last.at > last.stale.resetTime) =>
               last.res.resetIn = last.config.windowSec
        /\ last.res.resetIn = 0 => last.at = last.installed.resetTime

====
